---- MODULE Spec2Model ----
(***************************************************************************)
(* Model of the tiled relaxation solver of gpgpu_fluid (src/src/lib.rs)    *)
(* and of the OpenGL helpers it calls (src/src/gl_utils.rs), driven by a   *)
(* caller shaped like src/src/test.rs.  The GL context is modelled by the  *)
(* objects it holds: the textures with the dimensions given to             *)
(* tex_image_2d, the four image units and the program objects.             *)
(***************************************************************************)
EXTENDS Integers, Sequences, FiniteSets, TLC

VARIABLES
    size,        \* the SimulationSize given to LinSolve::new
    pc,          \* position of the single host thread
    images,      \* GL textures: images[t] = dimensions passed to tex_image_2d
    units,       \* GL image units: units[u] = texture bound to unit u (0: none)
    programs,    \* number of GL program objects created so far
    status,      \* what the backend reported for the last compile and link
    newResult,   \* result of LinSolve::new: NoResult, Ok or Err(message)
    solver,      \* the LinSolve instance, NoSolver while none exists
    call,        \* arguments of the step call in progress (or of the last one)
    i,           \* loop variable of step
    read_tex,    \* local read_tex of step
    write_tex,   \* local write_tex of step
    ret,         \* value returned by the last step call (NoTex: none yet)
    trace,       \* backend calls made by the step call, then by its caller
    sweeps,      \* relaxation sweeps executed by the dispatches of the step call
    stepsCalled, \* number of step calls started
    callerDims,  \* result of the caller's own size.dims() (test.rs:33)
    current_program, \* GL program in use in the context (NoProgram: none)
    uniforms,    \* uniform values the host has uploaded to the backend
    mem          \* contents of the GL textures: mem[t] = last write, older
                 \* contents, and the kinds of access the last write is visible to

vars == <<size, pc, images, units, programs, status, newResult, solver, call,
          i, read_tex, write_tex, ret, trace, sweeps, stepsCalled, callerDims,
          current_program, uniforms, mem>>

(***************************************************************************)
(* Bounds of the model.                                                    *)
(***************************************************************************)
MaxTiles == 2
MaxCallerImages == 2
MaxSteps == 2

\* a tile count whose product with LOCAL_SIZE no longer fits a 32-bit signed integer
HugeTiles == 2^26

\* the smallest tile count, the largest one of the model, and the wrapping one
TileCounts == {1, MaxTiles, HugeTiles}
Logs == {"0:1(1): error: syntax error", "error: linking failed"}
CoefA == {1}
CoefC == {8}

(***************************************************************************)
(* Constants of lib.rs.                                                    *)
(***************************************************************************)
LOCAL_SIZE == 32

Bounds == {"Positive", "NegX", "NegY"}

STEPS_PER_DISPATCH == 5

\* a variant with one dispatch less per step
N_DISPATCHES_Three == 4 - 1

N_DISPATCHES == 4

TOTAL_STEPS == STEPS_PER_DISPATCH * N_DISPATCHES

TILE_OUTPUT_SIZE == LOCAL_SIZE - STEPS_PER_DISPATCH * 2

X0_BIND == 0
READ_BIND == 1
WRITE_BIND == 2
SCRATCH_BIND == 3

ImageUnits == {X0_BIND, READ_BIND, WRITE_BIND, SCRATCH_BIND}

NoTex == 0
NoSolver == [exists |-> FALSE]
NoResult == [returned |-> FALSE]
NoCall == [active |-> FALSE]
NoProgram == 0
NoUniforms == [set |-> FALSE]

(***************************************************************************)
(* Integer conversions.  usize values are kept below 2^31 by the bounds;   *)
(* the low 32 bits of a product are computed on 16-bit halves so that the  *)
(* wrap of `as i32` is computed and not assumed away.                      *)
(***************************************************************************)
Half == 2^16

Lo16(v) == v % Half
Hi16(v) == (v \div Half) % Half

\* low 32 bits of the usize product n * k, as <<high half, low half>>
Low32OfProduct(n, k) ==
    LET lo == Lo16(n) * k
        hi == Hi16(n) * k + (lo \div Half)
    IN  <<hi % Half, lo % Half>>

\* the 32 bits read as a two's complement signed integer
SignedOf(halves) ==
    IF halves[1] >= Half \div 2
    THEN (halves[1] - Half) * Half + halves[2]
    ELSE halves[1] * Half + halves[2]

\* `(n * k) as i32`
MulAsI32(n, k) == SignedOf(Low32OfProduct(n, k))

\* `v as i32`
AsI32(v) == MulAsI32(v, 1)

\* `v as u32`, for v below 2^31
AsU32(v) == Hi16(v) * Half + Lo16(v)

\* a variant with the two axes exchanged
dims_Swapped(s) == <<s.y_tiles * TILE_OUTPUT_SIZE, s.x_tiles * TILE_OUTPUT_SIZE>>

(***************************************************************************)
(* SimulationSize::dims                                                    *)
(***************************************************************************)
dims(s) == <<s.x_tiles * TILE_OUTPUT_SIZE, s.y_tiles * TILE_OUTPUT_SIZE>>

(***************************************************************************)
(* gl_utils.rs                                                             *)
(***************************************************************************)
Outcomes == {"ok", "no_program", "no_file", "no_shader", "compile_fail", "link_fail"}

\* a variant that never asks for the compile and link status
create_program_NoStatusCheck(outcome, log) ==
    CASE outcome = "no_program" ->
            [ok |-> FALSE, msg |-> "Cannot create program", created |-> FALSE]
      [] outcome = "no_file" ->
            [ok |-> FALSE, msg |-> "Failed to read ./kernels/lin_solve.comp", created |-> TRUE]
      [] outcome = "no_shader" ->
            [ok |-> FALSE, msg |-> "Cannot create program", created |-> TRUE]
      [] OTHER ->
            [ok |-> TRUE, msg |-> "", created |-> TRUE]

\* create_program: the result for each way the backend and the file system
\* can answer; `created` tells whether a GL program object now exists
create_program(outcome, log) ==
    CASE outcome = "no_program" ->
            [ok |-> FALSE, msg |-> "Cannot create program", created |-> FALSE]
      [] outcome = "no_file" ->
            [ok |-> FALSE, msg |-> "Failed to read ./kernels/lin_solve.comp", created |-> TRUE]
      [] outcome = "no_shader" ->
            [ok |-> FALSE, msg |-> "Cannot create program", created |-> TRUE]
      [] outcome = "compile_fail" ->
            [ok |-> FALSE, msg |-> log, created |-> TRUE]
      [] outcome = "link_fail" ->
            [ok |-> FALSE, msg |-> log, created |-> TRUE]
      [] OTHER ->
            [ok |-> TRUE, msg |-> "", created |-> TRUE]

\* what get_shader_compile_status and get_program_link_status answered
\* ("not_run" when create_program returned before asking), and the info log
StatusOf(outcome, log) ==
    [compiled |-> CASE outcome \in {"ok", "link_fail"} -> "ok"
                    [] outcome = "compile_fail" -> "failed"
                    [] OTHER -> "not_run",
     linked   |-> CASE outcome = "ok" -> "ok"
                    [] outcome = "link_fail" -> "failed"
                    [] OTHER -> "not_run",
     log      |-> IF outcome \in {"compile_fail", "link_fail"} THEN log ELSE ""]

\* create_image, past create_texture: the new texture is bound to image
\* unit 0 and given the dimensions passed in
ImagesAfterCreate(width, height) == Append(images, [width |-> width, height |-> height])
UnitsAfterCreate == [units EXCEPT ![0] = Len(images) + 1]

\* the kinds of access to the contents of a texture made after a shader's
\* image store: image loads of a later dispatch, and get_tex_image
AccessKinds == {"image_load_store", "texture_update"}

\* what a texture can hold: nothing specified, the data the host uploaded,
\* what dispatch k of the step call in progress (or of the last one) stored,
\* or what a dispatch of an earlier step call stored
Unspecified == [by |-> "nobody", i |-> 0]
HostData == [by |-> "host", i |-> 0]
StoredBy(k) == [by |-> "dispatch", i |-> k]
EarlierCall == [by |-> "earlier_call", i |-> 0]

\* a new step call begins: what the dispatches of the calls before it
\* stored is from now on the contents left by an earlier call
Aged(tag) == IF tag.by = "dispatch" THEN EarlierCall ELSE tag
MemAtCall ==
    [t \in DOMAIN mem |->
        [mem[t] EXCEPT !.last = Aged(mem[t].last),
                       !.stale = {Aged(tag) : tag \in mem[t].stale}]]

\* create_image, tex_image_2d with `pixels`: with None the texture has no
\* specified contents, with Some(..) it holds the host's data
MemAfterCreate(pixels) ==
    Append(mem, [last |-> IF pixels = "None" THEN Unspecified ELSE HostData,
                 stale |-> {},
                 visibleTo |-> AccessKinds])

\* what an access of kind `kind` to texture t can observe: the last write,
\* and older contents while no barrier covering `kind` followed that write
MaySee(t, kind) ==
    IF kind \in mem[t].visibleTo THEN {mem[t].last} ELSE {mem[t].last} \cup mem[t].stale

(***************************************************************************)
(* The initial state: a caller holding a SimulationSize and a GL context.  *)
(***************************************************************************)
Init ==
    /\ size \in [x_tiles : TileCounts, y_tiles : {1, MaxTiles}]
    /\ pc = "new"
    /\ images = <<>>
    /\ units = [u \in ImageUnits |-> NoTex]
    /\ programs = 0
    /\ status = [compiled |-> "not_run", linked |-> "not_run", log |-> ""]
    /\ newResult = NoResult
    /\ solver = NoSolver
    /\ call = NoCall
    /\ i = 0
    /\ read_tex = NoTex
    /\ write_tex = NoTex
    /\ ret = NoTex
    /\ trace = <<>>
    /\ sweeps = 0
    /\ stepsCalled = 0
    /\ callerDims = <<0, 0>>
    /\ current_program = NoProgram
    /\ uniforms = NoUniforms
    /\ mem = <<>>

(***************************************************************************)
(* LinSolve::new                                                           *)
(***************************************************************************)
\* lib.rs:69  create_program(...)?
NewCreateProgram ==
    /\ pc = "new"
    /\ \E outcome \in Outcomes, log \in Logs :
         LET r == create_program(outcome, log) IN
           /\ status' = StatusOf(outcome, log)
           /\ programs' = IF r.created THEN programs + 1 ELSE programs
           /\ IF r.ok
              THEN /\ pc' = "new_wg_scratch"
                   /\ newResult' = newResult
              ELSE /\ pc' = "new_failed"
                   /\ newResult' = [returned |-> TRUE, ok |-> FALSE, msg |-> r.msg]
    /\ UNCHANGED <<size, images, units, solver, call, i, read_tex, write_tex,
                   ret, trace, sweeps, stepsCalled, callerDims>>
    /\ UNCHANGED <<current_program, uniforms, mem>>

\* lib.rs:71-76  create_image(x_tiles * LOCAL_SIZE as i32, y_tiles * LOCAL_SIZE as i32)?
NewCreateWgScratch ==
    /\ pc = "new_wg_scratch"
    /\ \E textureOk \in BOOLEAN :
         IF textureOk
         THEN /\ images' = ImagesAfterCreate(MulAsI32(size.x_tiles, LOCAL_SIZE),
                                             MulAsI32(size.y_tiles, LOCAL_SIZE))
              /\ units' = UnitsAfterCreate
              /\ mem' = MemAfterCreate("None")
              /\ pc' = "new_sim_scratch"
              /\ newResult' = newResult
         ELSE /\ pc' = "new_failed"
              /\ newResult' = [returned |-> TRUE, ok |-> FALSE, msg |-> "Cannot create program"]
              /\ UNCHANGED <<images, units, mem>>
    /\ UNCHANGED <<size, programs, status, solver, call, i, read_tex, write_tex,
                   ret, trace, sweeps, stepsCalled, callerDims>>
    /\ UNCHANGED <<current_program, uniforms>>

\* lib.rs:78-86  size.dims(), create_image(width as i32, height as i32)?, Ok(Self {..})
NewCreateSimScratch ==
    /\ pc = "new_sim_scratch"
    /\ \E textureOk \in BOOLEAN :
         IF textureOk
         THEN /\ images' = ImagesAfterCreate(AsI32(dims(size)[1]), AsI32(dims(size)[2]))
              /\ units' = UnitsAfterCreate
              /\ mem' = MemAfterCreate("None")
              /\ solver' = [exists |-> TRUE,
                            program |-> programs,
                            wg_scratch |-> Len(images),
                            sim_scratch |-> Len(images) + 1,
                            size |-> size]
              /\ newResult' = [returned |-> TRUE, ok |-> TRUE, msg |-> ""]
              /\ pc' = "idle"
         ELSE /\ pc' = "new_failed"
              /\ newResult' = [returned |-> TRUE, ok |-> FALSE, msg |-> "Cannot create program"]
              /\ UNCHANGED <<images, units, solver, mem>>
    /\ UNCHANGED <<size, programs, status, call, i, read_tex, write_tex,
                   ret, trace, sweeps, stepsCalled, callerDims>>
    /\ UNCHANGED <<current_program, uniforms>>

(***************************************************************************)
(* The caller (test.rs): its own size.dims(), the images it creates, the   *)
(* download of the result.                                                 *)
(***************************************************************************)
\* test.rs:33  let (w, h) = size.dims();
CallerDims ==
    /\ pc = "idle"
    /\ callerDims = <<0, 0>>
    /\ callerDims' = dims(size)
    /\ UNCHANGED <<size, pc, images, units, programs, status, newResult, solver,
                   call, i, read_tex, write_tex, ret, trace, sweeps, stepsCalled>>
    /\ UNCHANGED <<current_program, uniforms, mem>>

\* test.rs:37-38  create_image(&gl, w as i32, h as i32, Some(..)).unwrap()
CallerCreateImage ==
    /\ pc = "idle"
    /\ callerDims # <<0, 0>>
    /\ Len(images) < 2 + MaxCallerImages
    /\ \E textureOk \in BOOLEAN :
         IF textureOk
         THEN /\ images' = ImagesAfterCreate(AsI32(callerDims[1]), AsI32(callerDims[2]))
              /\ units' = UnitsAfterCreate
              /\ mem' = MemAfterCreate("Some")
              /\ pc' = pc
         ELSE /\ pc' = "panicked"
              /\ UNCHANGED <<images, units, mem>>
    /\ UNCHANGED <<size, programs, status, newResult, solver, call, i, read_tex,
                   write_tex, ret, trace, sweeps, stepsCalled, callerDims>>
    /\ UNCHANGED <<current_program, uniforms>>

\* test.rs:102-114  download_image(&gl, result, ..)
CallerDownload ==
    /\ pc = "idle"
    /\ ret # NoTex
    /\ trace[Len(trace)].type # "download"
    /\ trace' = Append(trace, [type |-> "download", tex |-> ret,
                               maySee |-> MaySee(ret, "texture_update")])
    /\ UNCHANGED <<size, pc, images, units, programs, status, newResult, solver,
                   call, i, read_tex, write_tex, ret, sweeps, stepsCalled, callerDims>>
    /\ UNCHANGED <<current_program, uniforms, mem>>

(***************************************************************************)
(* LinSolve::step                                                          *)
(***************************************************************************)
\* a variant that reads the caller's buffer at every dispatch
ReadTexAt_AlwaysX(k, x, scratch) == x

\* a variant that writes the scratch buffer at every dispatch
WriteTexAt_AlwaysScratch(k, x, scratch) == scratch

\* lib.rs:113-119  the buffer read and the buffer written by dispatch k
ReadTexAt(k, x, scratch) == IF k % 2 = 0 THEN x ELSE scratch
WriteTexAt(k, x, scratch) == IF k % 2 = 0 THEN scratch ELSE x

\* the sweeps one dispatch of kernels/lin_solve.comp performs
KernelSweeps == STEPS_PER_DISPATCH

\* a variant that launches one workgroup per pixel
DispatchGroups_PerPixel(s) == <<AsU32(dims(s)[1]), AsU32(dims(s)[2]), 1>>

\* lib.rs:125  the workgroup grid given to dispatch_compute
DispatchGroups(s) == <<AsU32(s.x_tiles), AsU32(s.y_tiles), 1>>

\* lib.rs:126  the barrier bits given to memory_barrier
BarrierBits == "SHADER_STORAGE_BARRIER_BIT"

\* the kinds of access a memory_barrier with the given bits orders after
\* earlier shader writes (glMemoryBarrier)
BarrierCovers(bits) ==
    CASE bits = "SHADER_IMAGE_ACCESS_BARRIER_BIT" -> {"image_load_store"}
      [] bits = "TEXTURE_UPDATE_BARRIER_BIT" -> {"texture_update"}
      [] bits = "ALL_BARRIER_BITS" -> AccessKinds
      [] OTHER -> {}

\* lib.rs:123-125  the dispatch stores to the image bound to WRITE_BIND; its
\* earlier contents stay observable until a covering barrier
MemAfterDispatch(w, tag) ==
    [mem EXCEPT ![w] = [last |-> tag,
                        stale |-> IF mem[w].visibleTo = AccessKinds
                                  THEN {mem[w].last}
                                  ELSE mem[w].stale \cup {mem[w].last},
                        visibleTo |-> {}]]

\* lib.rs:126  the barrier makes earlier stores visible to the kinds of
\* access its bits cover
MemAfterBarrier(bits) ==
    [t \in DOMAIN mem |->
        [mem[t] EXCEPT !.visibleTo = mem[t].visibleTo \cup BarrierCovers(bits)]]

\* a variant that leaves unit 0 as create_image left it
FixedBindings_NoX0(x0) ==
    [units EXCEPT ![SCRATCH_BIND] = solver.wg_scratch]

\* lib.rs:106-107  the image units after the two fixed bindings
FixedBindings(x0) ==
    [units EXCEPT ![X0_BIND] = x0, ![SCRATCH_BIND] = solver.wg_scratch]

\* a variant that refuses textures whose dimensions are not size.dims()
StepCall_ShapeChecked(x, x0, b, a, c) ==
    /\ pc = "idle"
    /\ solver.exists
    /\ stepsCalled < MaxSteps
    /\ images[x] = [width |-> dims(solver.size)[1], height |-> dims(solver.size)[2]]
    /\ images[x0] = images[x]
    /\ call' = [active |-> TRUE, b |-> b, x |-> x, x0 |-> x0, a |-> a, c |-> c]
    /\ units' = FixedBindings(x0)
    /\ trace' = << [type |-> "bind", unit |-> X0_BIND, tex |-> x0],
                   [type |-> "bind", unit |-> SCRATCH_BIND, tex |-> solver.wg_scratch] >>
    /\ write_tex' = x
    /\ read_tex' = NoTex
    /\ i' = 0
    /\ ret' = NoTex
    /\ sweeps' = 0
    /\ stepsCalled' = stepsCalled + 1
    /\ pc' = "loop"
    /\ mem' = MemAtCall
    /\ UNCHANGED <<size, images, programs, status, newResult, solver, callerDims>>
    /\ UNCHANGED <<current_program, uniforms>>

\* a variant that lets a call begin while another one is in its loop
StepCall_Reentrant(x, x0, b, a, c) ==
    /\ pc \in {"idle", "loop"}
    /\ solver.exists
    /\ stepsCalled < MaxSteps
    /\ call' = [active |-> TRUE, b |-> b, x |-> x, x0 |-> x0, a |-> a, c |-> c]
    /\ units' = FixedBindings(x0)
    /\ trace' = << [type |-> "bind", unit |-> X0_BIND, tex |-> x0],
                   [type |-> "bind", unit |-> SCRATCH_BIND, tex |-> solver.wg_scratch] >>
    /\ write_tex' = x
    /\ read_tex' = NoTex
    /\ i' = 0
    /\ ret' = NoTex
    /\ sweeps' = 0
    /\ stepsCalled' = stepsCalled + 1
    /\ pc' = "loop"
    /\ mem' = MemAtCall
    /\ UNCHANGED <<size, images, programs, status, newResult, solver, callerDims>>
    /\ UNCHANGED <<current_program, uniforms>>

\* lib.rs:91-110  a call step(gl, b, x, x0, a, c): entry, the two fixed
\* bindings, let mut write_tex = x
StepCall(x, x0, b, a, c) ==
    /\ pc = "idle"
    /\ solver.exists
    /\ stepsCalled < MaxSteps
    /\ call' = [active |-> TRUE, b |-> b, x |-> x, x0 |-> x0, a |-> a, c |-> c]
    /\ units' = FixedBindings(x0)
    /\ trace' = << [type |-> "bind", unit |-> X0_BIND, tex |-> x0],
                   [type |-> "bind", unit |-> SCRATCH_BIND, tex |-> solver.wg_scratch] >>
    /\ write_tex' = x
    /\ read_tex' = NoTex
    /\ i' = 0
    /\ ret' = NoTex
    /\ sweeps' = 0
    /\ stepsCalled' = stepsCalled + 1
    /\ pc' = "loop"
    /\ mem' = MemAtCall
    /\ UNCHANGED <<size, images, programs, status, newResult, solver, callerDims>>
    /\ UNCHANGED <<current_program, uniforms>>

\* the step calls a caller can make: any two textures of the context, any
\* boundary condition, any coefficients
StepBegin ==
    \E x \in 1..Len(images), x0 \in 1..Len(images), b \in Bounds,
       a \in CoefA, c \in CoefC :
         StepCall(x, x0, b, a, c)

\* lib.rs:112-123  loop test, choice of read_tex and write_tex, their binding
StepBind ==
    /\ pc = "loop"
    /\ i < N_DISPATCHES
    /\ read_tex' = ReadTexAt(i, call.x, solver.sim_scratch)
    /\ write_tex' = WriteTexAt(i, call.x, solver.sim_scratch)
    /\ units' = [units EXCEPT ![READ_BIND] = read_tex', ![WRITE_BIND] = write_tex']
    /\ trace' = trace \o << [type |-> "bind", unit |-> READ_BIND, tex |-> read_tex'],
                            [type |-> "bind", unit |-> WRITE_BIND, tex |-> write_tex'] >>
    /\ pc' = "dispatch"
    /\ UNCHANGED <<size, images, programs, status, newResult, solver, call, i,
                   ret, sweeps, stepsCalled, callerDims>>
    /\ UNCHANGED <<current_program, uniforms, mem>>

\* lib.rs:125  gl.dispatch_compute(x_tiles as u32, y_tiles as u32, 1)
StepDispatch ==
    /\ pc = "dispatch"
    /\ trace' = Append(trace, [type |-> "dispatch", i |-> i, units |-> units,
                               groups |-> DispatchGroups(solver.size),
                               program |-> current_program,
                               uniforms |-> uniforms,
                               maySee |-> MaySee(units[READ_BIND], "image_load_store")])
    /\ mem' = MemAfterDispatch(units[WRITE_BIND], StoredBy(i))
    /\ sweeps' = sweeps + KernelSweeps
    /\ pc' = "barrier"
    /\ UNCHANGED <<size, images, units, programs, status, newResult, solver, call,
                   i, read_tex, write_tex, ret, stepsCalled, callerDims>>
    /\ UNCHANGED <<current_program, uniforms>>

\* a variant of the loop body without the memory_barrier call
StepBarrier_NoBarrier ==
    /\ pc = "barrier"
    /\ i' = i + 1
    /\ pc' = "loop"
    /\ UNCHANGED <<size, images, units, programs, status, newResult, solver, call,
                   read_tex, write_tex, ret, trace, sweeps, stepsCalled, callerDims>>
    /\ UNCHANGED <<current_program, uniforms, mem>>

\* lib.rs:126  gl.memory_barrier(..), then the next iteration
StepBarrier ==
    /\ pc = "barrier"
    /\ trace' = Append(trace, [type |-> "barrier", bits |-> BarrierBits])
    /\ mem' = MemAfterBarrier(BarrierBits)
    /\ i' = i + 1
    /\ pc' = "loop"
    /\ UNCHANGED <<size, images, units, programs, status, newResult, solver, call,
                   read_tex, write_tex, ret, sweeps, stepsCalled, callerDims>>
    /\ UNCHANGED <<current_program, uniforms>>

\* a variant that returns the buffer last read
StepReturn_ReadTex ==
    /\ pc = "loop"
    /\ ~(i < N_DISPATCHES)
    /\ ret' = read_tex
    /\ pc' = "idle"
    /\ UNCHANGED <<size, images, units, programs, status, newResult, solver, call,
                   i, read_tex, write_tex, trace, sweeps, stepsCalled, callerDims>>
    /\ UNCHANGED <<current_program, uniforms, mem>>

\* a variant that takes the caller's buffer as the solver's scratch buffer
StepReturn_SwapScratch ==
    /\ pc = "loop"
    /\ ~(i < N_DISPATCHES)
    /\ ret' = write_tex
    /\ solver' = [solver EXCEPT !.sim_scratch = write_tex]
    /\ pc' = "idle"
    /\ UNCHANGED <<size, images, units, programs, status, newResult, call,
                   i, read_tex, write_tex, trace, sweeps, stepsCalled, callerDims>>
    /\ UNCHANGED <<current_program, uniforms, mem>>

\* lib.rs:130  Ok(write_tex)
StepReturn ==
    /\ pc = "loop"
    /\ ~(i < N_DISPATCHES)
    /\ ret' = write_tex
    /\ pc' = "idle"
    /\ UNCHANGED <<size, images, units, programs, status, newResult, solver, call,
                   i, read_tex, write_tex, trace, sweeps, stepsCalled, callerDims>>
    /\ UNCHANGED <<current_program, uniforms, mem>>

Next ==
    \/ NewCreateProgram
    \/ NewCreateWgScratch
    \/ NewCreateSimScratch
    \/ CallerDims
    \/ CallerCreateImage
    \/ CallerDownload
    \/ StepBegin
    \/ StepBind
    \/ StepDispatch
    \/ StepBarrier
    \/ StepReturn

Spec == Init /\ [][Next]_vars

(***************************************************************************)
(* Vocabulary of the properties.                                           *)
(***************************************************************************)
\* a step call has returned and its trace is complete
StepDone == pc = "idle" /\ ret # NoTex

InStep == pc \in {"loop", "dispatch", "barrier"}

\* the dispatches of the trace, in order
Dispatches == SelectSeq(trace, LAMBDA e : e.type = "dispatch")

\* the dispatches and barriers of the trace, in order
DispatchesAndBarriers == SelectSeq(trace, LAMBDA e : e.type \in {"dispatch", "barrier"})

TypeOK ==
    /\ pc \in {"new", "new_wg_scratch", "new_sim_scratch", "new_failed", "idle",
               "panicked", "loop", "dispatch", "barrier"}
    /\ i \in 0..N_DISPATCHES
    /\ \A u \in ImageUnits : units[u] \in 0..Len(images)

(***************************************************************************)
(* C1: the handle a step call returns is the write target of the last      *)
(* dispatch the call issued; the call makes an even number (4) of          *)
(* ping-pong writes, so the handle is the caller's x; after an odd number  *)
(* of writes the current write target is sim_scratch.                      *)
(***************************************************************************)
C1_ReturnIsLastWriteTarget ==
    /\ StepDone =>
         /\ Len(Dispatches) = 4
         /\ ret = Dispatches[Len(Dispatches)].units[WRITE_BIND]
         /\ ret = call.x
    /\ (InStep /\ Len(Dispatches) > 0) =>
         Dispatches[Len(Dispatches)].units[WRITE_BIND] =
            IF Len(Dispatches) % 2 = 1 THEN solver.sim_scratch ELSE call.x

C1_Witness ==
    /\ StepDone
    /\ ret = call.x
    /\ call.x # solver.sim_scratch
    /\ Len(Dispatches) = 4

(***************************************************************************)
(* C2: within one step call the dispatch of even index reads x and writes  *)
(* sim_scratch, the dispatch of odd index reads sim_scratch and writes x,  *)
(* and the two roles swap between consecutive dispatches.                  *)
(***************************************************************************)
C2_PingPong ==
    \A k \in 1..Len(Dispatches) :
        LET e == Dispatches[k] IN
        /\ e.i = k - 1
        /\ e.i \in 0..(N_DISPATCHES - 1)
        /\ IF e.i % 2 = 0
           THEN /\ e.units[READ_BIND] = call.x
                /\ e.units[WRITE_BIND] = solver.sim_scratch
           ELSE /\ e.units[READ_BIND] = solver.sim_scratch
                /\ e.units[WRITE_BIND] = call.x
        /\ k > 1 =>
             /\ e.units[READ_BIND] = Dispatches[k - 1].units[WRITE_BIND]
             /\ e.units[WRITE_BIND] = Dispatches[k - 1].units[READ_BIND]

C2_Witness ==
    /\ StepDone
    /\ Len(Dispatches) = 4
    /\ call.x # solver.sim_scratch
    /\ Dispatches[3].units[READ_BIND] = call.x
    /\ Dispatches[4].units[READ_BIND] = solver.sim_scratch

(***************************************************************************)
(* C3: every dispatch is followed by a memory barrier before the next      *)
(* dispatch is issued and before step returns; no two dispatches are       *)
(* issued without a barrier between them, and a download of the result     *)
(* comes after the barrier of the last dispatch.                           *)
(***************************************************************************)
C3_BarrierAfterEachDispatch ==
    LET db == DispatchesAndBarriers IN
    /\ \A k \in 1..Len(db) :
          (db[k].type = "dispatch" /\ k < Len(db)) => db[k + 1].type = "barrier"
    /\ (pc = "dispatch" /\ Len(db) > 0) => db[Len(db)].type = "barrier"
    /\ StepDone =>
          /\ Len(db) > 0
          /\ db[Len(db)].type = "barrier"
    /\ \A p \in 1..Len(trace) :
          trace[p].type = "download" =>
             \E q \in 1..(p - 1) :
                /\ trace[q].type = "barrier"
                /\ \A r \in (q + 1)..(p - 1) : trace[r].type # "dispatch"
                /\ \E r \in 1..(q - 1) : trace[r].type = "dispatch"

C3_Witness ==
    /\ StepDone
    /\ trace[Len(trace)].type = "download"
    /\ Len(Dispatches) = 4

(***************************************************************************)
(* C4, as stated: the dispatches and barriers of one step call are         *)
(* Dispatch0, Barrier, Dispatch1, Barrier, Dispatch2, Barrier, Dispatch3,  *)
(* and the call is done directly after Dispatch3.                          *)
(***************************************************************************)
\* position k of the sequence holds the dispatch or the barrier the state
\* machine puts there: dispatches at odd positions, with the write target
\* alternating from sim_scratch, barriers at even positions
MatchesAt(db, k) ==
    IF k % 2 = 1
    THEN /\ db[k].type = "dispatch"
         /\ db[k].i = (k - 1) \div 2
         /\ db[k].units[WRITE_BIND] =
               IF db[k].i % 2 = 0 THEN solver.sim_scratch ELSE call.x
    ELSE db[k].type = "barrier"

C4_DoneDirectlyAfterDispatch3 ==
    StepDone =>
       /\ Len(DispatchesAndBarriers) = 7
       /\ \A k \in 1..7 : MatchesAt(DispatchesAndBarriers, k)

(***************************************************************************)
(* C4, amended: the dispatches and barriers of one step call are           *)
(* Dispatch0 (write sim_scratch), Barrier, Dispatch1 (write x), Barrier,   *)
(* Dispatch2 (write sim_scratch), Barrier, Dispatch3 (write x), Barrier,   *)
(* and then the call is done: four dispatches, each followed by exactly    *)
(* one barrier, in this order only.                                        *)
(***************************************************************************)
C4_LinearTrace ==
    LET db == DispatchesAndBarriers IN
    /\ Len(db) <= 8
    /\ \A k \in 1..Len(db) : MatchesAt(db, k)
    /\ StepDone => Len(db) = 8
    /\ pc = "loop" => Len(db) = 2 * i
    /\ pc = "dispatch" => Len(db) = 2 * i
    /\ pc = "barrier" => Len(db) = 2 * i + 1

C4_Witness ==
    /\ StepDone
    /\ Len(DispatchesAndBarriers) = 8
    /\ DispatchesAndBarriers[7].type = "dispatch"
    /\ DispatchesAndBarriers[8].type = "barrier"
    /\ call.x # solver.sim_scratch

C6_Dims ==
    /\ LOCAL_SIZE = 32
    /\ TILE_OUTPUT_SIZE = 22
    /\ callerDims # <<0, 0>> =>
         /\ size.x_tiles > 0 /\ size.y_tiles > 0
         /\ callerDims = <<size.x_tiles * 22, size.y_tiles * 22>>
         /\ solver.exists
         /\ images[solver.sim_scratch] =
               [width |-> callerDims[1], height |-> callerDims[2]]

C6_Witness ==
    /\ callerDims = <<44, 22>>
    /\ size = [x_tiles |-> 2, y_tiles |-> 1]

(***************************************************************************)
(* C7: after a successful LinSolve::new, the width and height given to the *)
(* backend for wg_scratch are x_tiles * LOCAL_SIZE and                     *)
(* y_tiles * LOCAL_SIZE, and those given for sim_scratch are size.dims(),  *)
(* for every tile count.  (w = n * 32 is written w \div 32 = n and         *)
(* w % 32 = 0.)                                                            *)
(***************************************************************************)
C7_ScratchDimensions ==
    (newResult.returned /\ newResult.ok) =>
       /\ solver.exists
       /\ images[solver.wg_scratch].width \div 32 = solver.size.x_tiles
       /\ images[solver.wg_scratch].width % 32 = 0
       /\ images[solver.wg_scratch].height \div 32 = solver.size.y_tiles
       /\ images[solver.wg_scratch].height % 32 = 0
       /\ images[solver.sim_scratch].width = dims(solver.size)[1]
       /\ images[solver.sim_scratch].height = dims(solver.size)[2]

(***************************************************************************)
(* C8: when the compilation or the linking of the kernel fails in          *)
(* LinSolve::new, new returns an error that carries the backend's info     *)
(* log, no solver exists afterwards, no step call can be made, and neither *)
(* wg_scratch nor sim_scratch has been allocated.                          *)
(***************************************************************************)
C8_CompileFailure ==
    (status.compiled = "failed" \/ status.linked = "failed") =>
       /\ newResult.returned
       /\ ~newResult.ok
       /\ newResult.msg = status.log
       /\ newResult.msg \in Logs
       /\ solver = NoSolver
       /\ images = <<>>
       /\ pc = "new_failed"
       /\ stepsCalled = 0
       /\ ~ENABLED StepBegin

C8_Witness ==
    /\ pc = "new_failed"
    /\ status.compiled = "failed"
    /\ newResult.msg = "0:1(1): error: syntax error"

(***************************************************************************)
(* C9, as stated: x0 is bound to unit 0 and wg_scratch to unit 3 once,     *)
(* before the first dispatch; at each dispatch unit 0 holds x0 and unit 3  *)
(* holds wg_scratch; x0 is never bound to the write unit and is never the  *)
(* destination of a dispatch.                                              *)
(***************************************************************************)
\* the two fixed bindings are the first two backend calls of the step call
\* and are not repeated
FixedBoundOnce ==
    (InStep \/ StepDone) =>
       /\ Len(trace) >= 2
       /\ trace[1] = [type |-> "bind", unit |-> X0_BIND, tex |-> call.x0]
       /\ trace[2] = [type |-> "bind", unit |-> SCRATCH_BIND, tex |-> solver.wg_scratch]
       /\ \A p \in 3..Len(trace) :
             trace[p].type = "bind" => trace[p].unit \in {READ_BIND, WRITE_BIND}

FixedHeldAtDispatches ==
    \A k \in 1..Len(Dispatches) :
       /\ Dispatches[k].units[X0_BIND] = call.x0
       /\ Dispatches[k].units[SCRATCH_BIND] = solver.wg_scratch

X0NeverWritten ==
    /\ \A p \in 1..Len(trace) :
          (trace[p].type = "bind" /\ trace[p].unit = WRITE_BIND) => trace[p].tex # call.x0
    /\ \A k \in 1..Len(Dispatches) : Dispatches[k].units[WRITE_BIND] # call.x0

C9_X0NeverDestination ==
    /\ FixedBoundOnce
    /\ FixedHeldAtDispatches
    /\ X0NeverWritten

(***************************************************************************)
(* C9, amended: x0 is bound to unit 0 and wg_scratch to unit 3 once,       *)
(* before the first dispatch, and at each dispatch unit 0 holds x0 and     *)
(* unit 3 holds wg_scratch; when x0 is an image other than x and other     *)
(* than sim_scratch, x0 is never bound to the write unit and is never the  *)
(* destination of a dispatch.                                              *)
(***************************************************************************)
C9_X0ReadOnlyUnlessAliased ==
    /\ FixedBoundOnce
    /\ FixedHeldAtDispatches
    /\ (call.active /\ call.x0 # call.x /\ call.x0 # solver.sim_scratch) => X0NeverWritten

C9_Witness ==
    /\ StepDone
    /\ Len(Dispatches) = 4
    /\ call.x0 # call.x
    /\ call.x0 # solver.sim_scratch
    /\ call.x0 # solver.wg_scratch
    /\ Len(images) = 4
    /\ call.x0 = 3

(***************************************************************************)
(* C10: every dispatch of step launches a grid of x_tiles by y_tiles by 1  *)
(* workgroups, one per tile, taken from the size stored in the solver, the *)
(* same grid at all four dispatches.                                       *)
(***************************************************************************)
C10_OneWorkgroupPerTile ==
    /\ solver.exists => solver.size = size
    /\ \A k \in 1..Len(Dispatches) :
          /\ Dispatches[k].groups = <<solver.size.x_tiles, solver.size.y_tiles, 1>>
          /\ Dispatches[k].groups = Dispatches[1].groups

C10_Witness ==
    /\ StepDone
    /\ Len(Dispatches) = 4
    /\ Dispatches[4].groups = <<2, 1, 1>>

(***************************************************************************)
(* C11: after any sequence of step calls the solver's program, sim_scratch *)
(* and wg_scratch handles and its size are the ones set at construction;   *)
(* step never allocates, reallocates or replaces an image.                 *)
(***************************************************************************)
C11_SolverUnchangedByStep ==
    /\ [](solver.exists =>
            /\ solver.size = size
            /\ solver.wg_scratch \in 1..Len(images)
            /\ solver.sim_scratch \in 1..Len(images)
            /\ solver.program \in 1..programs)
    /\ [][ /\ solver.exists => solver' = solver
           /\ (InStep \/ InStep') =>
                 /\ images' = images
                 /\ programs' = programs
                 /\ Len(mem') = Len(mem) ]_vars

C11_Witness ==
    /\ StepDone
    /\ stepsCalled = 2
    /\ solver = [exists |-> TRUE, program |-> 1, wg_scratch |-> 1,
                 sim_scratch |-> 2, size |-> size]
    /\ call.x = 3

(***************************************************************************)
(* C12: the boundary condition and the coefficients a and c given to a     *)
(* step call are among the inputs the backend holds for the kernel at each *)
(* of the call's dispatches, so that calls differing in the boundary       *)
(* argument do not issue the same kernel inputs.                           *)
(***************************************************************************)
C12_KernelGetsArguments ==
    \A k \in 1..Len(Dispatches) :
        Dispatches[k].uniforms = [set |-> TRUE, b |-> call.b, a |-> call.a, c |-> call.c]

(***************************************************************************)
(* C13: step never fails and never stops part-way: whatever textures it is *)
(* given, also ones whose dimensions are not size.dims(), the call is      *)
(* accepted, every position of the call has its next step, and the call    *)
(* ends with four dispatches issued and a texture handle returned.         *)
(***************************************************************************)
C13_StepNeverFails ==
    /\ (pc = "idle" /\ solver.exists /\ stepsCalled < MaxSteps) =>
          /\ \A x \in 1..Len(images), x0 \in 1..Len(images) :
                ENABLED (\E b \in Bounds, a \in CoefA, c \in CoefC :
                            StepCall(x, x0, b, a, c))
          /\ \A b \in Bounds, a \in CoefA, c \in CoefC :
                ENABLED (\E x \in 1..Len(images), x0 \in 1..Len(images) :
                            StepCall(x, x0, b, a, c))
    /\ pc = "loop" => ENABLED (StepBind \/ StepReturn)
    /\ pc = "dispatch" => ENABLED StepDispatch
    /\ pc = "barrier" => ENABLED StepBarrier
    /\ (pc = "idle" /\ call.active) =>
          /\ Len(Dispatches) = 4
          /\ ret \in 1..Len(images)

C13_Witness ==
    /\ StepDone
    /\ Len(Dispatches) = 4
    /\ images[call.x] # [width |-> dims(size)[1], height |-> dims(size)[2]]
    /\ images[call.x0] # images[call.x]

C16_BarrierCoversImageAccess ==
    /\ \A p \in 1..Len(trace) :
          trace[p].type = "barrier" => "image_load_store" \in BarrierCovers(trace[p].bits)
    /\ \A k \in 2..Len(Dispatches) : Dispatches[k].maySee = {StoredBy(k - 2)}
    /\ \A p \in 1..Len(trace) :
          trace[p].type = "download" => trace[p].maySee = {StoredBy(3)}

(***************************************************************************)
(* C17: in step calls whose x is not one of the solver's scratch images,   *)
(* every dispatch reads a buffer other than the one it writes, and every   *)
(* dispatch that reads sim_scratch reads what the preceding dispatch of    *)
(* the same call wrote: never unspecified contents, never contents left by *)
(* an earlier call.                                                        *)
(***************************************************************************)
C17_ScratchReadAfterWrite ==
    (call.active /\ call.x # solver.sim_scratch /\ call.x # solver.wg_scratch) =>
       \A k \in 1..Len(Dispatches) :
          LET e == Dispatches[k] IN
          /\ e.units[READ_BIND] # e.units[WRITE_BIND]
          /\ e.units[READ_BIND] = solver.sim_scratch =>
                /\ k > 1
                /\ Dispatches[k - 1].units[WRITE_BIND] = solver.sim_scratch
                /\ Unspecified \notin e.maySee
                /\ EarlierCall \notin e.maySee
                /\ e.maySee = {StoredBy(Dispatches[k - 1].i)}

(***************************************************************************)
(* C18: at every dispatch of step the program in use is the solver's own   *)
(* program, the one LinSolve::new compiled, linked and stored.             *)
(***************************************************************************)
C18_SolverProgramRuns ==
    \A k \in 1..Len(Dispatches) :
        /\ Dispatches[k].program # NoProgram
        /\ Dispatches[k].program = solver.program

====
